---------------------------- MODULE Spec2Model ----------------------------
(***************************************************************************)
(* Model of the dev-automation scripts:                                    *)
(*   - json_to_csv.py : flatten_json (pure, recursive) and the json_to_csv *)
(*     command line conversion around it;                                  *)
(*   - image-cropper.py : process_directory, the per-file crop loop.       *)
(*                                                                         *)
(* Python strings are sequences of one-character strings, so that joins,   *)
(* emptiness tests and "contains the separator" are computed, not assumed. *)
(* A decoded JSON value is a record tagged by its Python type:             *)
(*   [t |-> "dict", ks |-> keys in insertion order, vs |-> their values]   *)
(*   [t |-> "list", vs |-> elements]                                       *)
(*   [t |-> "int", n |-> ...]  [t |-> "str", cs |-> ...]                   *)
(*   [t |-> "bool", b |-> ...] [t |-> "null"]                              *)
(***************************************************************************)
EXTENDS Integers, Sequences, FiniteSets

VARIABLES
    data,        \* the tree handed to flatten_json (a mutable Python object)
    parent_key,  \* flatten_json's parent_key argument of the top-level call
    sep,         \* flatten_json's sep argument of the top-level call
    returned,    \* whether the call has returned
    items,       \* the list the call returned
    joins,       \* every key join the call evaluated (lines 22, 28, 38)
    \* json_to_csv
    pc,          \* where json_to_csv stands
    inputFile,   \* the input path on disk: missing, unreadable, invalid or a document
    outputDisk,  \* how the output path behaves when opened and written
    outputFile,  \* the output path on disk
    flattened,   \* json_to_csv's local flattened
    exitCode,    \* the process's exit status, once ended
    stderr,      \* the diagnostics printed
    stdout,      \* the summary printed
    \* process_directory
    files,       \* os.walk's listing of the directory
    fidx,        \* the position of the loop over files
    disk,        \* the file names present in the directory
    log,         \* what was printed for each file
    done         \* what happened to each file handled so far

flattenVars == <<data, parent_key, sep, returned, items, joins>>
csvVars == <<pc, inputFile, outputDisk, outputFile, flattened, exitCode, stderr, stdout>>
cropVars == <<files, fidx, disk, log, done>>
vars == <<flattenVars, csvVars, cropVars>>

---------------------------------------------------------------------------
(* Bounds of the model *)

\* trees have at most this many nodes (containers and scalars)
MaxNodes == 4

\* a directory lists at most this many files
MaxFiles == 2

---------------------------------------------------------------------------
(* Strings *)

Digit(d) == CASE d = 0 -> "0" [] d = 1 -> "1" [] d = 2 -> "2" [] d = 3 -> "3"
              [] d = 4 -> "4" [] d = 5 -> "5" [] d = 6 -> "6" [] d = 7 -> "7"
              [] d = 8 -> "8" [] d = 9 -> "9"

RECURSIVE NatToStr(_)
NatToStr(n) == IF n < 10 THEN <<Digit(n)>>
               ELSE NatToStr(n \div 10) \o <<Digit(n % 10)>>

\* str() of an int
IntToStr(n) == IF n < 0 THEN <<"-">> \o NatToStr(-n) ELSE NatToStr(n)

\* str() of a value that is neither dict nor list (lines 32, 34, 42, 45)
Str(v) == CASE v.t = "str"  -> v.cs
            [] v.t = "int"  -> IntToStr(v.n)
            [] v.t = "bool" -> IF v.b THEN <<"T", "r", "u", "e">>
                                      ELSE <<"F", "a", "l", "s", "e">>
            [] v.t = "null" -> <<"N", "o", "n", "e">>

\* Python's  sub in s
Contains(s, sub) ==
    \E i \in 0..(Len(s) - Len(sub)) :
        \A j \in 1..Len(sub) : s[i + j] = sub[j]

---------------------------------------------------------------------------
(* Trees *)

IsDict(v) == v.t = "dict"
IsList(v) == v.t = "list"
IsContainer(v) == IsDict(v) \/ IsList(v)

MkDict(ks, vs) == [t |-> "dict", ks |-> ks, vs |-> vs]
MkList(vs) == [t |-> "list", vs |-> vs]
MkInt(n) == [t |-> "int", n |-> n]
MkStr(cs) == [t |-> "str", cs |-> cs]

\* the scalars found at the leaves of the generated trees
LeafScalars == {MkInt(1), MkStr(<<"x">>)}

\* the scalars handed to flatten_json as the whole input
RootScalars == LeafScalars \cup
    {MkInt(42), MkInt(-7), MkStr(<<>>), [t |-> "bool", b |-> TRUE],
     [t |-> "bool", b |-> FALSE], [t |-> "null"]}

\* mapping keys: the empty key, a plain key, keys holding the default separator
Keys == {<<>>, <<"a">>, <<"a", ".">>, <<".", "a">>}

\* separators of the top-level call: the default, another character, two characters
Seps == {<<".">>, <<"/">>, <<".", ".">>}

\* parent_key of the top-level call: the default and a non-empty one
Prefixes == {<<>>, <<"p">>}

Range(f) == {f[i] : i \in DOMAIN f}

\* the sequences of w pairwise distinct keys (a dict's keys, in insertion order)
RECURSIVE KeySeqs(_)
KeySeqs(w) ==
    IF w = 0 THEN {<<>>}
    ELSE UNION {{Append(ks, k) : k \in Keys \ Range(ks)} : ks \in KeySeqs(w - 1)}

\* the sequences of w trees with m nodes in all, given tbl[k], the set of the
\* trees of exactly k nodes, for each k <= m
RECURSIVE Forests(_, _, _)
Forests(tbl, m, w) ==
    IF w = 0 THEN (IF m = 0 THEN {<<>>} ELSE {})
    ELSE UNION {LET rest == Forests(tbl, m - k, w - 1)
                IN  {<<t>> \o f : t \in tbl[k], f \in rest}
                : k \in 1..(m - (w - 1))}

\* TreeTable(n)[k], for k in 1..n: the trees of exactly k nodes
RECURSIVE TreeTable(_)
TreeTable(n) ==
    IF n = 1 THEN << LeafScalars \cup {MkDict(<<>>, <<>>), MkList(<<>>)} >>
    ELSE LET tbl == TreeTable(n - 1)
             OfWidth(w) ==
                 LET fs == Forests(tbl, n - 1, w)
                 IN  {MkList(f) : f \in fs} \cup
                     {MkDict(ks, f) : ks \in KeySeqs(w), f \in fs}
         IN  Append(tbl, UNION {OfWidth(w) : w \in 1..(n - 1)})

\* the trees of fewer than MaxNodes nodes, by size: the subtrees of the inputs
SubTrees == TreeTable(MaxNodes - 1)

\* Trees beyond MaxNodes: the documented examples of flattening
\* ({"a":{"b":1}}, {"a":[1,2]}, {"a":[{"b":1},{"c":2}]}, {"a":{},"b":[]}) and
\* two trees whose keys "a.", "a", ".a" meet around a separator.
Examples ==
    {MkDict(<< <<"a">> >>, << MkDict(<< <<"b">> >>, << MkInt(1) >>) >>),
     MkDict(<< <<"a">> >>, << MkList(<< MkInt(1), MkInt(2) >>) >>),
     MkDict(<< <<"a">> >>,
            << MkList(<< MkDict(<< <<"b">> >>, << MkInt(1) >>),
                         MkDict(<< <<"c">> >>, << MkInt(2) >>) >>) >>),
     MkDict(<< <<"a">>, <<"b">> >>, << MkDict(<<>>, <<>>), MkList(<<>>) >>),
     MkDict(<< <<"a", ".">>, <<"a">> >>,
            << MkDict(<< <<"a">> >>, << MkInt(1) >>),
               MkDict(<< <<".", "a">> >>, << MkInt(2) >>) >>),
     MkList(<< MkDict(<< <<"a", ".">>, <<"a">> >>,
                      << MkList(<< MkStr(<<"x">>) >>),
                         MkDict(<< <<".", "a">> >>, << MkInt(1) >>) >>) >>)}

---------------------------------------------------------------------------
(* flatten_json *)

\* line 22: new_key = f"{parent_key}{sep}{key}" if parent_key else key
NewKey(pk, s, key) == IF pk # <<>> THEN pk \o s \o key ELSE key

\* line 28: array_key = f"{new_key}{sep}{idx}"
DictArrayKey(new_key, s, idx) == new_key \o s \o IntToStr(idx)

ListArrayKeyNoPrefix(pk, s, idx) == IntToStr(idx)

\* line 38: array_key = f"{parent_key}{sep}{idx}" if parent_key else str(idx)
ListArrayKey(pk, s, idx) == IF pk # <<>> THEN pk \o s \o IntToStr(idx)
                            ELSE IntToStr(idx)

RecSepDefault(s) == <<".">>

\* lines 25, 30, 40: the recursive calls pass sep=sep
RecSep(s) == s

\* One run of flatten_json's body: the returned list (items) and, beside it,
\* the key joins the run evaluated (joins), each as the operands and the
\* result of line 22 ("key"), or of line 28 or 38 ("idx").
EmitUnlessEmptyKey(key, v) ==
    [items |-> IF key # <<>> THEN << <<key, Str(v)>> >> ELSE <<>>, joins |-> {}]
CatOverwrite(a, b) == [items |-> b.items, joins |-> a.joins \cup b.joins]
CatPrepend(a, b) == [items |-> b.items \o a.items, joins |-> a.joins \cup b.joins]

\* lines 32, 34, 42, 45: items.append((key, str(v)))
Emit(key, v) == [items |-> << <<key, Str(v)>> >>, joins |-> {}]
\* line 18: items = []
Nothing == [items |-> <<>>, joins |-> {}]
\* lines 25, 30, 40 (items.extend) and 32, 34, 42 (items.append)
Cat(a, b) == [items |-> a.items \o b.items, joins |-> a.joins \cup b.joins]
KeyJoin(pk, key, child) ==
    [items |-> <<>>,
     joins |-> {[kind |-> "key", prefix |-> pk, key |-> key, child |-> child]}]
IdxJoin(pk, idx, child) ==
    [items |-> <<>>,
     joins |-> {[kind |-> "idx", prefix |-> pk, idx |-> idx, child |-> child]}]

RECURSIVE Walk(_, _, _)
Walk(d, pk, s) ==
    IF IsDict(d) THEN
        \* lines 20-34
        LET Entry(i) ==
                LET new_key == NewKey(pk, s, d.ks[i])
                    value == d.vs[i]
                    Sub ==
                        IF IsDict(value) THEN Walk(value, new_key, RecSep(s))
                        ELSE IF IsList(value) THEN
                            LET Elem(j) ==
                                    LET array_key == DictArrayKey(new_key, s, j - 1)
                                        item == value.vs[j]
                                    IN  Cat(IdxJoin(new_key, j - 1, array_key),
                                            IF IsContainer(item)
                                            THEN Walk(item, array_key, RecSep(s))
                                            ELSE Emit(array_key, item))
                                G[j \in 0..Len(value.vs)] ==
                                    IF j = 0 THEN Nothing ELSE Cat(G[j - 1], Elem(j))
                            IN  G[Len(value.vs)]
                        ELSE Emit(new_key, value)
                IN  Cat(KeyJoin(pk, d.ks[i], new_key), Sub)
            F[i \in 0..Len(d.vs)] ==
                IF i = 0 THEN Nothing ELSE Cat(F[i - 1], Entry(i))
        IN  F[Len(d.vs)]
    ELSE IF IsList(d) THEN
        \* lines 36-42
        LET Elem(j) ==
                LET array_key == ListArrayKey(pk, s, j - 1)
                    item == d.vs[j]
                IN  Cat(IdxJoin(pk, j - 1, array_key),
                        IF IsContainer(item)
                        THEN Walk(item, array_key, RecSep(s))
                        ELSE Emit(array_key, item))
            G[j \in 0..Len(d.vs)] ==
                IF j = 0 THEN Nothing ELSE Cat(G[j - 1], Elem(j))
        IN  G[Len(d.vs)]
    ELSE
        \* lines 44-45
        Emit(pk, d)

\* the list flatten_json returns (line 47)
flatten_json(d, pk, s) == Walk(d, pk, s).items

---------------------------------------------------------------------------
(* The caller's view of flatten_json: a tree object, and calls on it *)

\* as if the loop consumed the container:  while value: value.pop(0)
DataAfterPop(d) == IF IsContainer(d) /\ Len(d.vs) > 0
                   THEN [d EXCEPT !.vs = Tail(d.vs)] ELSE d

\* The tree after a call.  No statement of lines 13-47 assigns into data or
\* calls a mutating method on it; items (line 18) is a fresh list.
DataAfter(d) == d

\* json_to_csv and process_directory are not running
CsvIdle ==
    /\ pc = "idle"
    /\ inputFile = [kind |-> "missing"]
    /\ outputDisk = "writable"
    /\ outputFile = [state |-> "absent"]
    /\ flattened = <<>>
    /\ exitCode = -1
    /\ stderr = <<>>
    /\ stdout = <<>>

CropIdle ==
    /\ files = <<>>
    /\ fidx = 1
    /\ disk = {}
    /\ log = <<>>
    /\ done = <<>>

\* The inputs: a scalar, an empty container, a list or a dict over a forest of
\* at most MaxNodes - 1 nodes, or one of the examples.
Init ==
    /\ \/ data \in RootScalars \cup Examples \cup {MkDict(<<>>, <<>>), MkList(<<>>)}
       \/ \E m \in 1..(MaxNodes - 1), w \in 1..(MaxNodes - 1) :
              \E f \in Forests(SubTrees, m, w) :
                  \/ data = MkList(f)
                  \/ \E ks \in KeySeqs(w) : data = MkDict(ks, f)
    /\ parent_key \in Prefixes
    /\ sep \in Seps
    /\ returned = FALSE
    /\ items = <<>>
    /\ joins = {}
    /\ CsvIdle
    /\ CropIdle

\* flatten_json(data, parent_key, sep)
Call ==
    /\ ~returned
    /\ returned' = TRUE
    /\ LET r == Walk(data, parent_key, sep)
       IN  /\ items' = r.items
           /\ joins' = r.joins
    /\ data' = DataAfter(data)
    /\ UNCHANGED <<parent_key, sep, csvVars, cropVars>>

Next == Call

Spec == Init /\ [][Next]_vars

---------------------------------------------------------------------------
(* json_to_csv(input_file, output_file): lines 50-87 *)

\* the documents an input file can hold
Documents == RootScalars \cup Examples \cup UNION Range(SubTrees)

\* sys.exit(1) after a diagnostic on stderr (lines 57-58, 69-70, 72-73, 83-84)
Fail(diagnostic) ==
    /\ stderr' = Append(stderr, diagnostic)
    /\ exitCode' = 1
    /\ pc' = "exit"

\* line 81 writes the header row, then one row per entry
CsvRows(entries) == << <<"key", "translation">> >> \o entries

TotalRowsWithHeader(entries) == Len(CsvRows(entries))

\* line 87: len(flattened)
TotalRows(entries) == Len(entries)

InitCsv ==
    /\ pc = "check"
    /\ \/ inputFile \in {[kind |-> "missing"], [kind |-> "unreadable"],
                         [kind |-> "invalid"]}
       \/ \E doc \in Documents : inputFile = [kind |-> "json", doc |-> doc]
    /\ outputDisk \in {"writable", "unopenable", "fails_midway"}
    /\ outputFile \in {[state |-> "absent"], [state |-> "old"]}
    /\ data = [t |-> "null"]
    /\ flattened = <<>>
    /\ exitCode = -1
    /\ stderr = <<>>
    /\ stdout = <<>>
    /\ parent_key = <<>>
    /\ sep = <<".">>
    /\ returned = FALSE
    /\ items = <<>>
    /\ joins = {}
    /\ CropIdle

\* lines 54-63: the input path must exist; the output path is derived
CheckInput ==
    /\ pc = "check"
    /\ IF inputFile.kind = "missing"
       THEN Fail("not found")
       ELSE pc' = "read" /\ UNCHANGED <<exitCode, stderr>>
    /\ UNCHANGED <<flattenVars, inputFile, outputDisk, outputFile, flattened,
                   stdout, cropVars>>

ReadInputTruncatingOutput ==
    /\ pc = "read"
    /\ outputFile' = IF outputDisk = "unopenable" THEN outputFile
                     ELSE [state |-> "partial", rows |-> <<>>]
    /\ CASE inputFile.kind = "json" ->
              /\ data' = inputFile.doc
              /\ pc' = "flatten"
              /\ UNCHANGED <<exitCode, stderr>>
         [] inputFile.kind = "invalid" ->
              Fail("invalid JSON") /\ UNCHANGED data
         [] OTHER ->
              Fail("error reading") /\ UNCHANGED data
    /\ UNCHANGED <<parent_key, sep, returned, items, joins, inputFile, outputDisk,
                   flattened, stdout, cropVars>>

\* lines 65-73: open and json.load the input
ReadInput ==
    /\ pc = "read"
    /\ CASE inputFile.kind = "json" ->
              /\ data' = inputFile.doc
              /\ pc' = "flatten"
              /\ UNCHANGED <<exitCode, stderr>>
         [] inputFile.kind = "invalid" ->
              Fail("invalid JSON") /\ UNCHANGED data
         [] OTHER ->
              Fail("error reading") /\ UNCHANGED data
    /\ UNCHANGED <<parent_key, sep, returned, items, joins, inputFile, outputDisk,
                   outputFile, flattened, stdout, cropVars>>

\* line 75: flattened = flatten_json(data), with the default parent_key and sep
FlattenDocument ==
    /\ pc = "flatten"
    /\ flattened' = flatten_json(data, <<>>, <<".">>)
    /\ data' = DataAfter(data)
    /\ pc' = "write"
    /\ UNCHANGED <<parent_key, sep, returned, items, joins, inputFile, outputDisk,
                   outputFile, exitCode, stderr, stdout, cropVars>>

\* lines 77-84: open the output for writing, write the header and the rows
WriteOutput ==
    /\ pc = "write"
    /\ CASE outputDisk = "writable" ->
              /\ outputFile' = [state |-> "written", rows |-> CsvRows(flattened)]
              /\ pc' = "summary"
              /\ UNCHANGED <<exitCode, stderr>>
         [] outputDisk = "unopenable" ->
              Fail("error writing") /\ UNCHANGED outputFile
         [] OTHER ->
              /\ \E n \in 0..Len(flattened) :
                     outputFile' = [state |-> "partial",
                                    rows |-> SubSeq(CsvRows(flattened), 1, n)]
              /\ Fail("error writing")
    /\ UNCHANGED <<flattenVars, inputFile, outputDisk, flattened, stdout, cropVars>>

\* lines 86-87: the success summary, then the function returns
Summary ==
    /\ pc = "summary"
    /\ stdout' = stdout \o << [msg |-> "Successfully converted"],
                              [msg |-> "Total rows", n |-> TotalRows(flattened)] >>
    /\ exitCode' = 0
    /\ pc' = "done"
    /\ UNCHANGED <<flattenVars, inputFile, outputDisk, outputFile, flattened,
                   stderr, cropVars>>

NextCsv ==
    \/ CheckInput
    \/ ReadInput
    \/ FlattenDocument
    \/ WriteOutput
    \/ Summary

SpecCsv == InitCsv /\ [][NextCsv]_vars

---------------------------------------------------------------------------
(* process_directory(input_dir): lines 49-117, one directory of the walk *)

\* lines 54-65: crop_configs, by name
CropConfigs == <<"tall", "square">>

\* line 68: supported_formats
SupportedFormats == {".jpg", ".jpeg", ".png", ".bmp", ".tiff"}

\* str.lower() on the extensions of the model
Lower(ext) == CASE ext = ".PNG" -> ".png" [] ext = ".JPG" -> ".jpg" [] OTHER -> ext

\* the files a directory may list
FilePool == {[name |-> n, ext |-> e] : n \in {"x", "x_tall"},
                                       e \in {".jpg", ".PNG", ".txt"}}

\* line 78: input_path (within the directory)
InputPath(f) == f.name \o f.ext

\* line 94: output_filename = f"{name}_{config['name']}{ext}"
OutputPath(f, config) == f.name \o "_" \o config \o f.ext

\* the listings of at most n distinct files
RECURSIVE Listings(_)
Listings(n) ==
    IF n = 0 THEN {<<>>}
    ELSE Listings(n - 1) \cup
         UNION {{Append(l, f) : f \in FilePool \ Range(l)} : l \in Listings(n - 1)}

\* What one pass through the loop body meets: whether Image.open succeeds,
\* the image's mode, whether convert succeeds, how crop-and-save ends for each
\* configuration (saved; raised leaving nothing; raised leaving a partial
\* file), and whether os.remove succeeds.
Outcomes ==
    [open : BOOLEAN, mode : {"RGB", "RGBA"}, convert : BOOLEAN,
     crops : [1..Len(CropConfigs) -> {"saved", "raised", "raised_partial"}],
     remove : BOOLEAN]

DeleteAlways(all_crops_successful) == TRUE

\* line 110: if all_crops_successful
DeleteOriginal(all_crops_successful) == all_crops_successful

InitCrop ==
    /\ files \in Listings(MaxFiles)
    /\ fidx = 1
    /\ disk = {InputPath(files[i]) : i \in 1..Len(files)}
    /\ log = <<>>
    /\ done = <<>>
    /\ data = [t |-> "null"]
    /\ parent_key = <<>>
    /\ sep = <<".">>
    /\ returned = FALSE
    /\ items = <<>>
    /\ joins = {}
    /\ CsvIdle

\* line 77: the extension is not a supported format; the file is passed over
SkipFile ==
    /\ fidx <= Len(files)
    /\ Lower(files[fidx].ext) \notin SupportedFormats
    /\ fidx' = fidx + 1
    /\ done' = Append(done, [path |-> InputPath(files[fidx]), image |-> FALSE,
                              opened |-> FALSE, crops |-> <<>>,
                              present |-> InputPath(files[fidx]) \in disk])
    /\ UNCHANGED <<files, disk, log, flattenVars, csvVars>>

\* lines 77-117: one supported image, from Image.open to the outer except
ProcessImage ==
    /\ fidx <= Len(files)
    /\ Lower(files[fidx].ext) \in SupportedFormats
    /\ \E o \in Outcomes :
        LET f == files[fidx]
            path == InputPath(f)
            \* lines 83-86: open, and convert for the modes that need it
            opened == o.open /\ (o.mode \in {"RGBA", "P"} => o.convert)
            \* lines 92-107: every configuration is tried
            written == {OutputPath(f, CropConfigs[c]) :
                           c \in {c \in 1..Len(CropConfigs) : o.crops[c] # "raised"}}
            failed == {c \in 1..Len(CropConfigs) : o.crops[c] # "saved"}
            all_crops_successful == failed = {}
            cropLog == [c \in 1..Len(CropConfigs) |->
                           IF c \in failed
                           THEN << [msg |-> "Error creating", file |-> path,
                                    config |-> CropConfigs[c]] >>
                           ELSE <<>>]
            creating == cropLog[1] \o cropLog[2]
            deleting == DeleteOriginal(all_crops_successful)
        IN  /\ fidx' = fidx + 1
            /\ IF ~opened THEN
                   \* line 116-117
                   /\ disk' = disk
                   /\ log' = Append(log, [msg |-> "Error processing", file |-> path])
               ELSE IF deleting /\ o.remove THEN
                   \* lines 111-112
                   /\ disk' = (disk \cup written) \ {path}
                   /\ log' = log \o creating \o
                             << [msg |-> "Processed and deleted original", file |-> path] >>
               ELSE IF deleting THEN
                   \* line 111 raises: lines 116-117
                   /\ disk' = disk \cup written
                   /\ log' = log \o creating \o
                             << [msg |-> "Error processing", file |-> path] >>
               ELSE
                   \* line 114
                   /\ disk' = disk \cup written
                   /\ log' = log \o creating \o
                             << [msg |-> "Processed but kept original due to errors",
                                 file |-> path] >>
            /\ done' = Append(done, [path |-> path, image |-> TRUE,
                                      opened |-> opened,
                                      crops |-> IF opened THEN o.crops ELSE <<>>,
                                      present |-> path \in disk'])
    /\ UNCHANGED <<files, flattenVars, csvVars>>

NextCrop ==
    \/ SkipFile
    \/ ProcessImage

SpecCrop == InitCrop /\ [][NextCrop]_vars

---------------------------------------------------------------------------
(* Reference traversal of a tree, independent of flatten_json *)

\* the number of scalar leaves reachable by recursive descent
RECURSIVE LeafCount(_)
LeafCount(d) ==
    IF IsContainer(d)
    THEN LET S[i \in 0..Len(d.vs)] ==
                 IF i = 0 THEN 0 ELSE S[i - 1] + LeafCount(d.vs[i])
         IN  S[Len(d.vs)]
    ELSE 1

\* the scalar leaves in pre-order, depth first: children in insertion / index order
RECURSIVE LeafValues(_)
LeafValues(d) ==
    IF IsContainer(d)
    THEN LET S[i \in 0..Len(d.vs)] ==
                 IF i = 0 THEN <<>> ELSE S[i - 1] \o LeafValues(d.vs[i])
         IN  S[Len(d.vs)]
    ELSE <<d>>

IsEmptyContainer(d) == IsContainer(d) /\ Len(d.vs) = 0

\* some container of the tree holds an empty container
RECURSIVE HoldsEmptyContainer(_)
HoldsEmptyContainer(d) ==
    /\ IsContainer(d)
    /\ \E i \in 1..Len(d.vs) :
           IsEmptyContainer(d.vs[i]) \/ HoldsEmptyContainer(d.vs[i])

\* no list anywhere in the tree
RECURSIVE DictsOnly(_)
DictsOnly(d) ==
    /\ ~IsList(d)
    /\ IsDict(d) => \A i \in 1..Len(d.vs) : DictsOnly(d.vs[i])

\* the keys a tree of dicts gets when each level joins prefix, separator and key
RECURSIVE DictKeys(_, _, _)
DictKeys(d, pk, s) ==
    IF IsDict(d)
    THEN LET S[i \in 0..Len(d.vs)] ==
                 IF i = 0 THEN <<>>
                 ELSE S[i - 1] \o
                      DictKeys(d.vs[i],
                               IF pk = <<>> THEN d.ks[i] ELSE pk \o s \o d.ks[i], s)
         IN  S[Len(d.vs)]
    ELSE <<pk>>

\* every mapping key of the tree is a non-empty string without the separator
RECURSIVE PlainKeys(_, _)
PlainKeys(d, s) ==
    /\ IsDict(d) => \A i \in 1..Len(d.ks) :
                        d.ks[i] # <<>> /\ ~Contains(d.ks[i], s)
    /\ IsContainer(d) => \A i \in 1..Len(d.vs) : PlainKeys(d.vs[i], s)

DistinctKeys(its) ==
    \A i, j \in 1..Len(its) : i # j => its[i][1] # its[j][1]

DecimalDigits == {"0", "1", "2", "3", "4", "5", "6", "7", "8", "9"}

---------------------------------------------------------------------------
(* Claims about flatten_json *)

\* C1: the returned list has exactly one entry per scalar leaf reachable by
\* recursive descent; empty dicts and lists, wherever they sit, add none.
C1_OneEntryPerLeaf ==
    returned => Len(items) = LeafCount(data)

\* a tree with scalar leaves and an empty container inside has been flattened
C1_Witness ==
    /\ returned
    /\ HoldsEmptyContainer(data)
    /\ Len(items) >= 2

\* C2: the entries come in the order a pre-order depth-first traversal meets
\* the scalar leaves (dict keys in insertion order, list elements by index).
C2_PreOrder ==
    returned =>
        /\ Len(items) = Len(LeafValues(data))
        /\ \A i \in 1..Len(items) : items[i][2] = Str(LeafValues(data)[i])

\* the first child is a container holding a leaf, the second child a leaf of
\* another value
C2_Witness ==
    /\ returned
    /\ IsContainer(data)
    /\ Len(data.vs) = 2
    /\ IsContainer(data.vs[1])
    /\ LeafCount(data.vs[1]) = 1
    /\ ~IsContainer(data.vs[2])
    /\ Len(items) = 2
    /\ items[1][2] # items[2][2]

\* C3: every list element's key is prefix + sep + str(i), or str(i) alone when
\* the prefix accumulated so far is the empty string.
C3_IndexKey ==
    returned =>
        \A j \in joins :
            j.kind = "idx" =>
                j.child = IF j.prefix = <<>> THEN IntToStr(j.idx)
                          ELSE j.prefix \o sep \o IntToStr(j.idx)

\* C4: every dict child's key is prefix + sep + k, or k alone when the prefix
\* is empty, with the separator of the top-level call at every depth.
C4_DictKey ==
    returned =>
        /\ \A j \in joins :
               j.kind = "key" =>
                   j.child = IF j.prefix = <<>> THEN j.key
                             ELSE j.prefix \o sep \o j.key
        /\ DictsOnly(data) =>
               /\ Len(items) = Len(DictKeys(data, parent_key, sep))
               /\ \A i \in 1..Len(items) :
                      items[i][1] = DictKeys(data, parent_key, sep)[i]

\* a dict two levels down was joined with a separator other than the default
C4_Witness ==
    /\ returned
    /\ sep = <<"/">>
    /\ DictsOnly(data)
    /\ \E j \in joins :
           j.kind = "key" /\ j.prefix # <<>> /\ j.prefix # parent_key
    /\ Len(items) >= 1

\* C5: a scalar as the whole input, with the empty prefix, gives exactly one
\* entry: the empty key and the scalar's string form.
C5_ScalarRoot ==
    (returned /\ ~IsContainer(data) /\ parent_key = <<>>) =>
        /\ items = << << <<>>, Str(data) >> >>
        /\ data = MkInt(42) => items = << << <<>>, <<"4", "2">> >> >>
        /\ data = [t |-> "null"] => items = << << <<>>, <<"N", "o", "n", "e">> >> >>

C5_Witness ==
    /\ returned
    /\ data = MkInt(42)
    /\ parent_key = <<>>

C9_DistinctKeys ==
    (returned /\ PlainKeys(data, sep)) => DistinctKeys(items)

\* C9 amended: the same, for a separator of one character that is no digit.
C9_DistinctKeysOneCharSep ==
    (returned /\ PlainKeys(data, sep) /\ Len(sep) = 1 /\ sep[1] \notin DecimalDigits)
        => DistinctKeys(items)

\* leaves under two dict keys, one of them nested, plain keys, one-character
\* separator
C9_Witness ==
    /\ returned
    /\ PlainKeys(data, sep)
    /\ Len(sep) = 1
    /\ IsDict(data)
    /\ Len(data.ks) = 2
    /\ \E i \in 1..2 : IsContainer(data.vs[i])
    /\ Len(items) = 2

---------------------------------------------------------------------------
(* Claims about json_to_csv *)

Ended == pc \in {"exit", "done"}

\* C6: a run ends with a non-zero exit and a diagnostic when the input is
\* missing, unreadable or not valid JSON, or the output cannot be written; any
\* other run ends normally after a summary whose row count is the number of
\* entries flatten_json returns.
C6_ExitAndSummary ==
    /\ ~Ended => ENABLED NextCsv
    /\ Ended =>
         CASE inputFile.kind = "missing" ->
                pc = "exit" /\ exitCode # 0 /\ stderr = <<"not found">> /\ stdout = <<>>
           [] inputFile.kind = "invalid" ->
                pc = "exit" /\ exitCode # 0 /\ stderr = <<"invalid JSON">> /\ stdout = <<>>
           [] inputFile.kind = "unreadable" ->
                pc = "exit" /\ exitCode # 0 /\ stderr = <<"error reading">> /\ stdout = <<>>
           [] inputFile.kind = "json" /\ outputDisk # "writable" ->
                pc = "exit" /\ exitCode # 0 /\ stderr = <<"error writing">> /\ stdout = <<>>
           [] OTHER ->
                /\ pc = "done" /\ exitCode = 0 /\ stderr = <<>>
                /\ Len(stdout) = 2
                /\ stdout[2] = [msg |-> "Total rows",
                                n |-> Len(flatten_json(inputFile.doc, <<>>, <<".">>))]

\* a document of several entries was flattened and the write failed midway
C6_Witness ==
    /\ pc = "exit"
    /\ inputFile.kind = "json"
    /\ outputDisk = "fails_midway"
    /\ Len(flattened) >= 2
    /\ outputFile.state = "partial"

\* C10: the output file changes only in the write step, after the input was
\* read and parsed; a run ended by a missing, unreadable or invalid input
\* leaves the output file as it was.
C10_OutputOnlyAfterParse ==
    /\ [][outputFile' # outputFile =>
            (pc = "write" /\ inputFile.kind = "json" /\ data = inputFile.doc)]_vars
    /\ []((Ended /\ inputFile.kind # "json") =>
            outputFile \in {[state |-> "absent"], [state |-> "old"]})

\* a run ended on invalid JSON with the earlier output file still there
C10_Witness ==
    /\ pc = "exit"
    /\ inputFile.kind = "invalid"
    /\ outputDisk = "writable"
    /\ outputFile = [state |-> "old"]

---------------------------------------------------------------------------
(* Claims about process_directory *)

AllSaved(r) == \A c \in 1..Len(CropConfigs) : r.crops[c] = "saved"

\* C8: an image's original is gone after its pass only if it was opened and
\* every configuration was cropped and saved; after a failed open or crop it
\* is still there; and the loop goes on to the remaining files.
C8_DeleteOnlyAfterAllCrops ==
    /\ \A i \in 1..Len(done) :
           done[i].image =>
               /\ ~done[i].present => (done[i].opened /\ AllSaved(done[i]))
               /\ (~done[i].opened \/ ~AllSaved(done[i])) => done[i].present
    /\ Len(done) = fidx - 1
    /\ fidx <= Len(files) => ENABLED NextCrop

\* the first image kept after a failed crop, the next one cropped and deleted
C8_Witness ==
    /\ Len(done) >= 2
    /\ done[1].image /\ done[1].opened /\ ~AllSaved(done[1]) /\ done[1].present
    /\ done[2].image /\ ~done[2].present

=============================================================================
